---- MODULE Spec2Model ----
(***************************************************************************)
(* Model of the find_peaks crate (src/src/lib.rs): a PeakFinder borrows a  *)
(* sample slice y_data and a position slice x_data, is configured through  *)
(* its with_* builder methods and is consumed by find_peaks().             *)
(*                                                                         *)
(* The sample type T and the position type S are modelled as signed        *)
(* integers.  Option<V> is modelled as a set with at most one element.     *)
(* Slices are TLA+ sequences; indices are the 0-based indices of the code, *)
(* read through at(s, i).                                                  *)
(***************************************************************************)
EXTENDS Integers, Sequences, FiniteSets

\* ------------------------------------------------------------------ bounds

\* longest sample slice of the general specification
MaxLen == 5
\* sample values are 0..MaxY
MaxY == 2
\* number of builder calls made on one finder
MaxCalls == 2
\* length of the sample slices of the distance specification
DistLen == 7

\* ------------------------------------------------------------ Option<V>

None == {}

Some(v) == {v}

is_none(o) == o = {}

is_some(o) == o # {}

unwrap(o) == CHOOSE v \in o : TRUE

\* 0-based read of a slice
at(s, i) == s[i + 1]

\* ------------------------------------------------------------ Limits<V>

Limits(lo, up) == [lower |-> lo, upper |-> up]

empty == Limits(None, None)

is_empty(limit) == is_none(limit.lower) /\ is_none(limit.upper)

is_inside(limit, v) ==
    /\ (is_none(limit.lower) \/ v >= unwrap(limit.lower))
    /\ (is_none(limit.upper) \/ v <= unwrap(limit.upper))

\* ------------------------------------------------------------ Peak<T>

Peak_new(s, e, left_diff, right_diff) ==
    [position |-> [start |-> s, end |-> e],
     left_diff |-> left_diff,
     right_diff |-> right_diff,
     height |-> None,
     prominence |-> None]

add_height(p, h) == [p EXCEPT !.height = Some(h)]

add_prominence(p, pr) == [p EXCEPT !.prominence = Some(pr)]

position_len(p) == p.position.end - p.position.start

middle_position(p) == (p.position.start + p.position.end) \div 2

\* ------------------------------------------------- get_local_maxima

\* local_maxima_step with the open plateau forgotten when the peak is built:
\* Peak::new(i - 1..i, ..) in place of Peak::new(start.unwrap_or(i - 1)..i, ..)
local_maxima_step_no_start(y, limit, zero, i, st) ==
    LET ahead_diff == st.prev - at(y, i)
        ahead_inside == is_inside(limit, ahead_diff)
        back_inside == is_inside(limit, st.back_diff)
    IN  IF back_inside /\ ahead_diff = zero
        THEN [st |-> [back_diff |-> st.back_diff,
                      prev |-> at(y, i),
                      start |-> IF is_none(st.start) THEN Some(i - 1) ELSE st.start],
              res |-> None]
        ELSE [st |-> [back_diff |-> zero - ahead_diff,
                      prev |-> at(y, i),
                      start |-> None],
              res |-> IF ahead_inside /\ back_inside
                      THEN Some(Peak_new(i - 1, i, st.back_diff, ahead_diff))
                      ELSE None]

\* One run of the filter_map closure, for the element (i, y[i]); st is the
\* closure's captured state [back_diff, prev, start], the result is the next
\* captured state and the value the closure returns (None or Some(peak)).
local_maxima_step(y, limit, zero, i, st) ==
    LET ahead_diff == st.prev - at(y, i)
        ahead_inside == is_inside(limit, ahead_diff)
        back_inside == is_inside(limit, st.back_diff)
    IN  IF back_inside /\ ahead_diff = zero
        THEN [st |-> [back_diff |-> st.back_diff,
                      prev |-> at(y, i),
                      start |-> IF is_none(st.start) THEN Some(i - 1) ELSE st.start],
              res |-> None]
        ELSE [st |-> [back_diff |-> zero - ahead_diff,
                      prev |-> at(y, i),
                      start |-> None],
              res |-> IF ahead_inside /\ back_inside
                      THEN Some(Peak_new(IF is_some(st.start) THEN unwrap(st.start) ELSE i - 1,
                                         i, st.back_diff, ahead_diff))
                      ELSE None]

RECURSIVE local_maxima_from(_, _, _, _, _)
local_maxima_from(y, limit, zero, i, st) ==
    IF i >= Len(y)
    THEN << >>
    ELSE LET r == local_maxima_step(y, limit, zero, i, st)
         IN  (IF is_some(r.res) THEN << unwrap(r.res) >> ELSE << >>)
                \o local_maxima_from(y, limit, zero, i + 1, r.st)

\* the peaks the iterator yields, in order; y has at least two elements
get_local_maxima(y, limit, zero) ==
    LET zeroth == at(y, 0)
        first == at(y, 1)
    IN  local_maxima_from(y, limit, zero, 2,
                          [back_diff |-> first - zeroth, prev |-> first, start |-> None])

\* ------------------------------------------------- filter_plateau

\* filter_plateau testing the index the plateau ends at in place of its length
RECURSIVE filter_plateau_by_end(_, _)
filter_plateau_by_end(peaks, limit) ==
    IF peaks = << >>
    THEN << >>
    ELSE LET p == Head(peaks)
             rest == filter_plateau_by_end(Tail(peaks), limit)
         IN  IF is_empty(limit)
             THEN << p >> \o rest
             ELSE IF is_inside(limit, p.position.end)
                  THEN << p >> \o rest
                  ELSE rest

RECURSIVE filter_plateau(_, _)
filter_plateau(peaks, limit) ==
    IF peaks = << >>
    THEN << >>
    ELSE LET p == Head(peaks)
             rest == filter_plateau(Tail(peaks), limit)
         IN  IF is_empty(limit)
             THEN << p >> \o rest
             ELSE IF is_inside(limit, position_len(p))
                  THEN << p >> \o rest
                  ELSE rest

\* ------------------------------------------------- filter_height

\* filter_height recording the height whether or not a bound is configured
RECURSIVE filter_height_eager(_, _, _)
filter_height_eager(peaks, y, limit) ==
    IF peaks = << >>
    THEN << >>
    ELSE LET p == Head(peaks)
             rest == filter_height_eager(Tail(peaks), y, limit)
             h == at(y, p.position.start)
         IN  IF is_inside(limit, h)
             THEN << add_height(p, h) >> \o rest
             ELSE rest

RECURSIVE filter_height(_, _, _)
filter_height(peaks, y, limit) ==
    IF peaks = << >>
    THEN << >>
    ELSE LET p == Head(peaks)
             rest == filter_height(Tail(peaks), y, limit)
         IN  IF is_empty(limit)
             THEN << p >> \o rest
             ELSE LET h == at(y, p.position.start)
                  IN  IF is_inside(limit, h)
                      THEN << add_height(p, h) >> \o rest
                      ELSE rest

\* ------------------------------------------------- calc_prominence

\* iter().skip(k): the elements of index k and above
skip(s, k) == IF k >= Len(s) THEN << >> ELSE SubSeq(s, k + 1, Len(s))

\* iter().rev()
rev(s) == [i \in 1..Len(s) |-> s[Len(s) + 1 - i]]

\* take_while(|&x| x <= &bound)
RECURSIVE take_while_le(_, _)
take_while_le(s, bound) ==
    IF s = << >>
    THEN << >>
    ELSE IF Head(s) <= bound
         THEN << Head(s) >> \o take_while_le(Tail(s), bound)
         ELSE << >>

\* min_by(partial_cmp): None for an empty iterator
RECURSIVE min_by(_)
min_by(s) ==
    IF s = << >>
    THEN None
    ELSE LET m == min_by(Tail(s))
         IN  IF is_none(m) \/ Head(s) <= unwrap(m) THEN Some(Head(s)) ELSE m

\* the valley left absent when the scan runs to the end of the data without
\* meeting a sample greater than the peak
valley_y_none_at_edge(scan, bound) ==
    IF take_while_le(scan, bound) = scan
    THEN None
    ELSE min_by(take_while_le(scan, bound))

\* .take_while(|&x| x <= &data[i_left]).min_by(..): the valley on the side
\* the iterator `scan` runs over
valley_y(scan, bound) == min_by(take_while_le(scan, bound))

\* calc_prominence taking the lower of the two valleys (v1.le(&v2))
calc_prominence_lower_valley(y, zero, p) ==
    LET i_left == p.position.start
        i_right == p.position.end - 1
        from_peak_right == skip(y, i_right + 1)
        from_peak_left == skip(rev(y), Len(y) - i_left)
        left_valley_y == min_by(take_while_le(from_peak_left, at(y, i_left)))
        right_valley_y == min_by(take_while_le(from_peak_right, at(y, i_left)))
        peak_height == at(y, i_left)
    IN  CASE is_none(left_valley_y) /\ is_none(right_valley_y) -> unwrap(zero)
          [] is_some(left_valley_y) /\ is_none(right_valley_y) ->
                peak_height - unwrap(left_valley_y)
          [] is_none(left_valley_y) /\ is_some(right_valley_y) ->
                peak_height - unwrap(right_valley_y)
          [] OTHER ->
                peak_height - (IF unwrap(left_valley_y) <= unwrap(right_valley_y)
                               THEN unwrap(left_valley_y)
                               ELSE unwrap(right_valley_y))

calc_prominence(y, zero, p) ==
    LET i_left == p.position.start
        i_right == p.position.end - 1
        from_peak_right == skip(y, i_right + 1)
        from_peak_left == skip(rev(y), Len(y) - i_left)
        left_valley_y == valley_y(from_peak_left, at(y, i_left))
        right_valley_y == valley_y(from_peak_right, at(y, i_left))
        peak_height == at(y, i_left)
    IN  CASE is_none(left_valley_y) /\ is_none(right_valley_y) -> unwrap(zero)
          [] is_some(left_valley_y) /\ is_none(right_valley_y) ->
                peak_height - unwrap(left_valley_y)
          [] is_none(left_valley_y) /\ is_some(right_valley_y) ->
                peak_height - unwrap(right_valley_y)
          [] OTHER ->
                peak_height - (IF unwrap(left_valley_y) >= unwrap(right_valley_y)
                               THEN unwrap(left_valley_y)
                               ELSE unwrap(right_valley_y))

\* ------------------------------------------------- filter_prominence

RECURSIVE filter_prominence(_, _, _, _)
filter_prominence(peaks, y, zero, limit) ==
    IF peaks = << >>
    THEN << >>
    ELSE LET p == Head(peaks)
             rest == filter_prominence(Tail(peaks), y, zero, limit)
         IN  IF is_empty(limit)
             THEN << p >> \o rest
             ELSE LET prom == calc_prominence(y, zero, p)
                  IN  IF is_inside(limit, prom)
                      THEN << add_prominence(p, prom) >> \o rest
                      ELSE rest

\* ------------------------------------------------- filter_distance

\* Option<T>::partial_cmp(a, b) is Less: None is below every Some
opt_lt(a, b) ==
    \/ is_none(a) /\ is_some(b)
    \/ is_some(a) /\ is_some(b) /\ unwrap(a) < unwrap(b)

\* The orders sort_unstable_by(|a, b| b.height.partial_cmp(&a.height)) may
\* leave the peaks in: every permutation in which no peak stands before one
\* of greater height.  The order of peaks the comparison calls Equal is not
\* specified by an unstable sort: each is a possible outcome.
sort_unstable_by(peaks) ==
    LET n == Len(peaks)
        perms == {f \in [1..n -> 1..n] : \A i, j \in 1..n : f[i] = f[j] => i = j}
    IN  {[i \in 1..n |-> peaks[f[i]]] : f \in
            {g \in perms : \A i, j \in 1..n :
                i < j => ~ opt_lt(peaks[g[i]].height, peaks[g[j]].height)}}

\* the loop `for i in 1..peaks.len()`, from index i on
RECURSIVE distance_loop(_, _, _, _, _, _)
distance_loop(peaks, x, limit, i, x_prev, filtered) ==
    IF i >= Len(peaks)
    THEN filtered
    ELSE LET xi == at(x, middle_position(at(peaks, i)))
             dist == IF xi > x_prev THEN xi - x_prev ELSE x_prev - xi
         IN  IF is_inside(limit, dist)
             THEN distance_loop(peaks, x, limit, i + 1, xi, Append(filtered, at(peaks, i)))
             ELSE distance_loop(peaks, x, limit, i + 1, x_prev, filtered)

\* What a call returns: a list of peaks, the finder itself, or a panic.
\* `sorted` is the list as the sort of filter_distance left it.
Returned(peaks, sorted) == [kind |-> "peaks", peaks |-> peaks, sorted |-> sorted]

Panicked == [kind |-> "panic", peaks |-> << >>, sorted |-> << >>]

Self == [kind |-> "self", peaks |-> << >>, sorted |-> << >>]

\* filter_distance once the sort has left the peaks in the order `sorted`
distance_sorted(sorted, x, limit) ==
    IF is_empty(limit)
    THEN Returned(sorted, sorted)
    ELSE IF Len(sorted) = 0
         THEN Panicked
         ELSE Returned(distance_loop(sorted, x, limit, 1,
                                     at(x, middle_position(at(sorted, 0))),
                                     << at(sorted, 0) >>),
                       sorted)

\* the set of outcomes of filter_distance, one per outcome of the sort
filter_distance(peaks, x, limit) ==
    {distance_sorted(sorted, x, limit) : sorted \in sort_unstable_by(peaks)}

\* ------------------------------------------------- find_peaks

\* the peaks collected from the lazy pipeline, before filter_distance
collected(y, zero, h, pr, df, ps) ==
    filter_prominence(
        filter_height(
            filter_plateau(get_local_maxima(y, df, unwrap(zero)), ps),
            y, h),
        y, zero, pr)

\* find_peaks with the early return taken for an empty slice only
\* ([0].contains(&len)): on one sample, it.next().unwrap() panics
find_peaks_empty_only(y, x, zero, h, pr, df, ps, ds) ==
    IF Len(y) = 0
    THEN {Returned(<< >>, << >>)}
    ELSE IF Len(y) = 1
         THEN {Panicked}
         ELSE filter_distance(collected(y, zero, h, pr, df, ps), x, ds)

\* the set of outcomes of find_peaks on a finder with these fields
find_peaks(y, x, zero, h, pr, df, ps, ds) ==
    IF Len(y) \in {0, 1}
    THEN {Returned(<< >>, << >>)}
    ELSE filter_distance(collected(y, zero, h, pr, df, ps), x, ds)

\* ------------------------------------------------------------ the finder

\* The fields of PeakFinder; `call` is the most recent call made on the finder
\* (its name and argument) and `ret` what that call returned; `calls` counts
\* the builder calls.
VARIABLES y_data, x_data, height, prominence, difference, plateau_size,
          distance, zero, call, ret, calls

vars == << y_data, x_data, height, prominence, difference, plateau_size,
           distance, zero, call, ret, calls >>

data == << y_data, x_data, zero >>

\* sample values, and the arguments the builder methods are called with
YVals == 0..MaxY

TArgs == -1..MaxY

SizeArgs == 1..3

SArgs == -1..3

SeqsOfLen(S, n) == [1..n -> S]

SeqsUpTo(S, n) == UNION {SeqsOfLen(S, k) : k \in 0..n}

Call(op, arg) == [op |-> op, arg |-> arg]

\* the fields PeakFinder::new and PeakFinder::new_with_x set
Constructed(y, x) ==
    /\ y_data = y
    /\ x_data = x
    /\ height = empty
    /\ prominence = empty
    /\ difference = IF y = << >> THEN empty ELSE Limits(Some(at(y, 0) - at(y, 0)), None)
    /\ plateau_size = empty
    /\ distance = empty
    /\ zero = IF y = << >> THEN None ELSE Some(at(y, 0) - at(y, 0))
    /\ ret = Self
    /\ calls = 0

\* PeakFinder::new(&y): the positions are the indices 0..len
new(y) ==
    /\ Constructed(y, [i \in 1..Len(y) |-> i - 1])
    /\ call = Call("new", 0)

\* PeakFinder::new_with_x(&y, &x), x of the length of y
new_with_x(y, x) ==
    /\ Constructed(y, x)
    /\ call = Call("new_with_x", 0)

Init == \E y \in SeqsUpTo(YVals, MaxLen) : new(y)

\* a panic unwinds out of the caller: nothing is called on the finder after it
Live == ret.kind # "panic"

MayConfigure == Live /\ calls < MaxCalls

\* the assertion with zero itself refused (zero.lt(&v))
assert_strictly_positive(v) == (v - v) < v

\* assert!(zero.le(&v), ..) with zero = v - v
assert_positive(v) == (v - v) <= v

with_min_height(h) ==
    /\ MayConfigure
    /\ height' = [height EXCEPT !.lower = Some(h)]
    /\ call' = Call("with_min_height", h)
    /\ ret' = Self
    /\ calls' = calls + 1
    /\ UNCHANGED << data, prominence, difference, plateau_size, distance >>

with_max_height(h) ==
    /\ MayConfigure
    /\ height' = [height EXCEPT !.upper = Some(h)]
    /\ call' = Call("with_max_height", h)
    /\ ret' = Self
    /\ calls' = calls + 1
    /\ UNCHANGED << data, prominence, difference, plateau_size, distance >>

with_min_prominence(v) ==
    /\ MayConfigure
    /\ call' = Call("with_min_prominence", v)
    /\ calls' = calls + 1
    /\ IF assert_positive(v)
       THEN /\ prominence' = [prominence EXCEPT !.lower = Some(v)]
            /\ ret' = Self
       ELSE /\ prominence' = prominence
            /\ ret' = Panicked
    /\ UNCHANGED << data, height, difference, plateau_size, distance >>

with_max_prominence(v) ==
    /\ MayConfigure
    /\ call' = Call("with_max_prominence", v)
    /\ calls' = calls + 1
    /\ IF assert_positive(v)
       THEN /\ prominence' = [prominence EXCEPT !.upper = Some(v)]
            /\ ret' = Self
       ELSE /\ prominence' = prominence
            /\ ret' = Panicked
    /\ UNCHANGED << data, height, difference, plateau_size, distance >>

with_min_difference(v) ==
    /\ MayConfigure
    /\ call' = Call("with_min_difference", v)
    /\ calls' = calls + 1
    /\ IF assert_positive(v)
       THEN /\ difference' = [difference EXCEPT !.lower = Some(v)]
            /\ ret' = Self
       ELSE /\ difference' = difference
            /\ ret' = Panicked
    /\ UNCHANGED << data, height, prominence, plateau_size, distance >>

with_max_difference(v) ==
    /\ MayConfigure
    /\ call' = Call("with_max_difference", v)
    /\ calls' = calls + 1
    /\ IF assert_positive(v)
       THEN /\ difference' = [difference EXCEPT !.upper = Some(v)]
            /\ ret' = Self
       ELSE /\ difference' = difference
            /\ ret' = Panicked
    /\ UNCHANGED << data, height, prominence, plateau_size, distance >>

with_min_plateau_size(size) ==
    /\ MayConfigure
    /\ plateau_size' = [plateau_size EXCEPT !.lower = Some(size)]
    /\ call' = Call("with_min_plateau_size", size)
    /\ ret' = Self
    /\ calls' = calls + 1
    /\ UNCHANGED << data, height, prominence, difference, distance >>

with_max_plateau_size(size) ==
    /\ MayConfigure
    /\ plateau_size' = [plateau_size EXCEPT !.upper = Some(size)]
    /\ call' = Call("with_max_plateau_size", size)
    /\ ret' = Self
    /\ calls' = calls + 1
    /\ UNCHANGED << data, height, prominence, difference, distance >>

with_min_distance(v) ==
    /\ MayConfigure
    /\ call' = Call("with_min_distance", v)
    /\ calls' = calls + 1
    /\ IF assert_positive(v)
       THEN /\ distance' = [distance EXCEPT !.lower = Some(v)]
            /\ ret' = Self
       ELSE /\ distance' = distance
            /\ ret' = Panicked
    /\ UNCHANGED << data, height, prominence, difference, plateau_size >>

with_max_distance(v) ==
    /\ MayConfigure
    /\ call' = Call("with_max_distance", v)
    /\ calls' = calls + 1
    /\ IF assert_positive(v)
       THEN /\ distance' = [distance EXCEPT !.upper = Some(v)]
            /\ ret' = Self
       ELSE /\ distance' = distance
            /\ ret' = Panicked
    /\ UNCHANGED << data, height, prominence, difference, plateau_size >>

\* fp.find_peaks(): the finder is borrowed immutably, the caller gets the list
FindPeaks ==
    /\ Live
    /\ call' = Call("find_peaks", 0)
    /\ ret' \in find_peaks(y_data, x_data, zero, height, prominence, difference,
                           plateau_size, distance)
    /\ UNCHANGED << data, height, prominence, difference, plateau_size, distance, calls >>

Next ==
    \/ \E h \in TArgs : with_min_height(h)
    \/ \E h \in TArgs : with_max_height(h)
    \/ \E v \in TArgs : with_min_prominence(v)
    \/ \E v \in TArgs : with_max_prominence(v)
    \/ \E v \in TArgs : with_min_difference(v)
    \/ \E v \in TArgs : with_max_difference(v)
    \/ \E size \in SizeArgs : with_min_plateau_size(size)
    \/ \E size \in SizeArgs : with_max_plateau_size(size)
    \/ \E v \in SArgs : with_min_distance(v)
    \/ \E v \in SArgs : with_max_distance(v)
    \/ FindPeaks

Spec == Init /\ [][Next]_vars

\* ------------------------------------------- the distance specification
\* Sample slices long enough for three peaks, with positions given through
\* new_with_x; the finder is configured by its height and distance bounds.

\* position slices: 1..n, with one position left out after index g (none
\* for g = n)
XSlices(n) == {[i \in 1..n |-> IF i <= g THEN i ELSE i + 1] : g \in {4, n}}

InitDist ==
    \E y \in SeqsOfLen(YVals, DistLen) : \E x \in XSlices(DistLen) : new_with_x(y, x)

NextDist ==
    \/ \E h \in TArgs : with_min_height(h)
    \/ \E v \in SArgs : with_min_distance(v)
    \/ \E v \in SArgs : with_max_distance(v)
    \/ FindPeaks

SpecDist == InitDist /\ [][NextDist]_vars

\* ================================================================ claims

N == Len(y_data)

Y(i) == at(y_data, i)

\* the finder's difference bound is the one the constructor set
DefaultDifference == difference = Limits(Some(0), None)

\* the maximal runs [s, e) of equal samples with a lower sample on each side
StrictRuns ==
    {r \in (1..(N - 1)) \X (1..(N - 1)) :
        /\ r[1] < r[2]
        /\ \A j \in r[1]..(r[2] - 1) : Y(j) = Y(r[1])
        /\ Y(r[1] - 1) < Y(r[1])
        /\ Y(r[2]) < Y(r[1])}

Range(p) == << p.position.start, p.position.end >>

\* C1: find_peaks on a slice of 0 or 1 samples returns the empty list,
\* whatever bounds are configured.
C1_ShortSliceEmpty ==
    (N <= 1 /\ call.op = "find_peaks") => (ret.kind = "peaks" /\ ret.peaks = << >>)

C1_Witness ==
    /\ N = 1
    /\ call.op = "find_peaks"
    /\ ret.kind = "peaks"
    /\ ~ is_empty(distance)
    /\ ~ is_empty(prominence)

\* C2: under the default difference bound every returned peak is a maximal
\* run of equal samples strictly inside the slice, with a strictly lower
\* sample on each side.
C2_StrictInteriorMaximum ==
    (ret.kind = "peaks" /\ DefaultDifference) =>
        \A k \in 1..Len(ret.peaks) :
            LET s == ret.peaks[k].position.start
                e == ret.peaks[k].position.end
            IN  /\ 1 <= s
                /\ s < e
                /\ e <= N - 1
                /\ \A j \in s..(e - 1) : Y(j) = Y(s)
                /\ Y(s - 1) < Y(s)
                /\ Y(e) < Y(s)

\* C3: with the default difference bound and no other bound, every maximal
\* run of equal samples with a lower sample on each side is returned exactly
\* once, with that range and with the steps to its two neighbours as
\* left_diff and right_diff; no two returned ranges overlap.
C3_EveryStrictRunOnce ==
    (ret.kind = "peaks" /\ DefaultDifference /\ is_empty(height) /\ is_empty(prominence)
        /\ is_empty(plateau_size) /\ is_empty(distance)) =>
        /\ \A r \in StrictRuns :
              /\ Cardinality({k \in 1..Len(ret.peaks) : Range(ret.peaks[k]) = r}) = 1
              /\ \A k \in 1..Len(ret.peaks) :
                    Range(ret.peaks[k]) = r =>
                        /\ ret.peaks[k].left_diff = Y(r[1]) - Y(r[1] - 1)
                        /\ ret.peaks[k].right_diff = Y(r[1]) - Y(r[2])
        /\ \A k1, k2 \in 1..Len(ret.peaks) :
              k1 # k2 =>
                  \/ ret.peaks[k1].position.end <= ret.peaks[k2].position.start
                  \/ ret.peaks[k2].position.end <= ret.peaks[k1].position.start

C3_Witness ==
    /\ ret.kind = "peaks"
    /\ DefaultDifference
    /\ is_empty(height) /\ is_empty(prominence)
    /\ is_empty(plateau_size) /\ is_empty(distance)
    /\ \E r \in StrictRuns :
          /\ r[2] - r[1] >= 2
          /\ \E k \in 1..Len(ret.peaks) : Range(ret.peaks[k]) = r

\* C4: whatever is configured, the returned list is in descending order of
\* the sample value of the peaks.
C4_DescendingSampleValue ==
    ret.kind = "peaks" =>
        \A k \in 1..(Len(ret.peaks) - 1) :
            Y(ret.peaks[k].position.start) >= Y(ret.peaks[k + 1].position.start)

\* C5: a returned peak carries a height exactly when a height bound is
\* configured, and then it is the sample at its start and lies within the
\* bound; it carries a prominence exactly when a prominence bound is
\* configured, and then it lies within the bound.
C5_FieldsIffConfigured ==
    ret.kind = "peaks" =>
        \A k \in 1..Len(ret.peaks) :
            LET p == ret.peaks[k]
            IN  /\ (p.height # {}) <=> (height.lower # {} \/ height.upper # {})
                /\ \A v \in p.height :
                      /\ v = Y(p.position.start)
                      /\ \A b \in height.lower : b <= v
                      /\ \A b \in height.upper : v <= b
                /\ (p.prominence # {}) <=> (prominence.lower # {} \/ prominence.upper # {})
                /\ \A v \in p.prominence :
                      /\ \A b \in prominence.lower : b <= v
                      /\ \A b \in prominence.upper : v <= b

C5_Witness ==
    /\ ret.kind = "peaks"
    /\ Len(ret.peaks) >= 1
    /\ ~ is_empty(height)
    /\ is_empty(prominence)
    /\ ~ is_empty(plateau_size)
    /\ ret.peaks[1].height = {Y(ret.peaks[1].position.start)}
    /\ ret.peaks[1].prominence = {}

\* the indices a scan leftward from start - 1 meets before the first sample
\* greater than the peak, and the same rightward from end
LeftScan(p) ==
    {j \in 0..(p.position.start - 1) :
        \A k \in j..(p.position.start - 1) : Y(k) <= Y(p.position.start)}

RightScan(p) ==
    {j \in p.position.end..(N - 1) :
        \A k \in p.position.end..j : Y(k) <= Y(p.position.start)}

\* the least sample over a non-empty set of indices
MinOver(S) == CHOOSE m \in {Y(j) : j \in S} : \A j \in S : m <= Y(j)

Larger(a, b) == IF a >= b THEN a ELSE b

IndexSlice(n) == [i \in 1..n |-> i - 1]

\* tests::proms: [1,2,3,0,5,0] with_min_height(0) with_min_prominence(1)
ProminenceExample ==
    find_peaks(<< 1, 2, 3, 0, 5, 0 >>, IndexSlice(6), Some(0), Limits(Some(0), None),
               Limits(Some(1), None), Limits(Some(0), None), empty, empty)

ProminenceExampleAsTested ==
    \A r \in ProminenceExample :
        /\ r.kind = "peaks"
        /\ Len(r.peaks) = 2
        /\ Range(r.peaks[1]) = << 4, 5 >> /\ r.peaks[1].prominence = {5}
        /\ Range(r.peaks[2]) = << 2, 3 >> /\ r.peaks[2].prominence = {2}

\* C6: with a prominence bound configured, the prominence of a returned peak
\* is its sample value minus the larger of L and R, L the least sample met
\* scanning leftward from start - 1 up to the first greater sample or the
\* edge, R the same rightward from end; the peaks of [1,2,3,0,5,0] get 5 and 2.
C6_ProminenceOfLargerValley ==
    /\ (ret.kind = "peaks" /\ ~ is_empty(prominence)) =>
          \A k \in 1..Len(ret.peaks) :
              LET p == ret.peaks[k]
              IN  /\ LeftScan(p) # {}
                  /\ RightScan(p) # {}
                  /\ p.prominence =
                        {Y(p.position.start)
                            - Larger(MinOver(LeftScan(p)), MinOver(RightScan(p)))}
    /\ ProminenceExampleAsTested

C6_Witness ==
    /\ ret.kind = "peaks"
    /\ ~ is_empty(prominence)
    /\ \E k \in 1..Len(ret.peaks) :
          /\ Range(ret.peaks[k]) \in StrictRuns
          /\ MinOver(LeftScan(ret.peaks[k])) # MinOver(RightScan(ret.peaks[k]))
    /\ \E k \in 1..Len(ret.peaks) :
          /\ Range(ret.peaks[k]) \in StrictRuns
          /\ RightScan(ret.peaks[k]) # ret.peaks[k].position.end..(N - 1)

\* the peaks that reach filter_distance (the slice has at least two samples)
Candidates == collected(y_data, zero, height, prominence, difference, plateau_size)

Abs(a) == IF a >= 0 THEN a ELSE 0 - a

\* the position value of a peak
XMid(p) == at(x_data, middle_position(p))

InDistance(d) ==
    /\ \A b \in distance.lower : b <= d
    /\ \A b \in distance.upper : d <= b

Permutations(n) == {f \in [1..n -> 1..n] : \A i, j \in 1..n : f[i] = f[j] => i = j}

Reordered(seq) == {[i \in 1..Len(seq) |-> seq[f[i]]] : f \in Permutations(Len(seq))}

\* the orders of seq in descending sample value
HeightSorted(seq) ==
    {t \in Reordered(seq) :
        \A i \in 1..(Len(t) - 1) : Y(t[i].position.start) >= Y(t[i + 1].position.start)}

\* the indices of seq the greedy selection keeps: the first, and each later
\* one exactly when it is within the distance bound of the last kept before it
KeptSets(seq) ==
    {K \in SUBSET (1..Len(seq)) :
        /\ 1 \in K
        /\ \A j \in 2..Len(seq) :
              LET last == CHOOSE k \in K : k < j /\ \A m \in K : m < j => m <= k
              IN  j \in K <=> InDistance(Abs(XMid(seq[j]) - XMid(seq[last])))}

\* the elements of seq at the indices K, in the order of seq
Restrict(seq, K) ==
    [i \in 1..Cardinality(K) |->
        seq[CHOOSE k \in K : Cardinality({m \in K : m <= k}) = i]]

\* C7: with a distance bound configured and a candidate surviving, the
\* returned list is the greedy selection over the candidates in descending
\* order of height; with no distance bound nothing is removed.
C7_GreedyOverHeightSorted ==
    (call.op = "find_peaks" /\ N >= 2) =>
        /\ (~ is_empty(distance) /\ Candidates # << >>) =>
              /\ ret.kind = "peaks"
              /\ \E seq \in HeightSorted(Candidates) :
                    \E K \in KeptSets(seq) : ret.peaks = Restrict(seq, K)
        /\ is_empty(distance) =>
              /\ ret.kind = "peaks"
              /\ ret.peaks \in Reordered(Candidates)

\* The selection itself, over the list in the order the sort left it
\* (ret.sorted): it is the greedy selection, and consecutively kept peaks are
\* within the distance bound of each other.
DistanceGreedyOverSorted ==
    (call.op = "find_peaks" /\ N >= 2 /\ ~ is_empty(distance) /\ Candidates # << >>) =>
        /\ ret.kind = "peaks"
        /\ ret.sorted \in Reordered(Candidates)
        /\ \E K \in KeptSets(ret.sorted) : ret.peaks = Restrict(ret.sorted, K)
        /\ \A k \in 1..(Len(ret.peaks) - 1) :
              InDistance(Abs(XMid(ret.peaks[k + 1]) - XMid(ret.peaks[k])))

\* C8: with a minimum distance and no maximum configured, any two returned
\* peaks are at least that far apart in position value.
C8_AllPairsApart ==
    (ret.kind = "peaks" /\ is_some(distance.lower) /\ is_none(distance.upper)) =>
        \A a, b \in 1..Len(ret.peaks) :
            a # b => Abs(XMid(ret.peaks[a]) - XMid(ret.peaks[b])) >= unwrap(distance.lower)

\* the ten bounds of the finder, by the name of the method that sets each
Bounds ==
    [with_min_height |-> height.lower, with_max_height |-> height.upper,
     with_min_prominence |-> prominence.lower, with_max_prominence |-> prominence.upper,
     with_min_difference |-> difference.lower, with_max_difference |-> difference.upper,
     with_min_plateau_size |-> plateau_size.lower, with_max_plateau_size |-> plateau_size.upper,
     with_min_distance |-> distance.lower, with_max_distance |-> distance.upper]

Validating ==
    {"with_min_prominence", "with_max_prominence", "with_min_difference",
     "with_max_difference", "with_min_distance", "with_max_distance"}

\* C9: a validating builder method called with a value below zero panics in
\* that call and changes no bound; called with zero or more it returns the
\* finder with exactly its own bound set to the value, every other bound and
\* the data as they were.
C9_ValidatedAtTheCall ==
    [][(calls' = calls + 1 /\ call'.op \in Validating) =>
          /\ y_data' = y_data /\ x_data' = x_data /\ zero' = zero
          /\ IF call'.arg < 0
             THEN ret'.kind = "panic" /\ Bounds' = Bounds
             ELSE /\ ret'.kind = "self"
                  /\ Bounds' = [Bounds EXCEPT ![call'.op] = {call'.arg}]]_vars

C9_Witness ==
    /\ call.op = "with_min_distance"
    /\ call.arg < 0
    /\ ret.kind = "panic"
    /\ calls = 2
    /\ is_some(prominence.upper)
    /\ is_empty(distance)

\* C10: every returned peak has both its differences within the difference
\* bound and, with a plateau-size bound configured, a length within it; the
\* plateau-size stage passes on, unchanged and in order, exactly the
\* candidates whose length is within the bound.
C10_DifferenceAndPlateauSize ==
    /\ ret.kind = "peaks" =>
          \A k \in 1..Len(ret.peaks) :
              LET p == ret.peaks[k]
              IN  /\ \A b \in difference.lower : b <= p.left_diff /\ b <= p.right_diff
                  /\ \A b \in difference.upper : p.left_diff <= b /\ p.right_diff <= b
                  /\ \A b \in plateau_size.lower : b <= p.position.end - p.position.start
                  /\ \A b \in plateau_size.upper : p.position.end - p.position.start <= b
    /\ N >= 2 =>
          LET maxima == get_local_maxima(y_data, difference, unwrap(zero))
              Within(p) ==
                  /\ \A b \in plateau_size.lower : b <= p.position.end - p.position.start
                  /\ \A b \in plateau_size.upper : p.position.end - p.position.start <= b
          IN  filter_plateau(maxima, plateau_size) = SelectSeq(maxima, Within)

C10_Witness ==
    /\ ret.kind = "peaks"
    /\ plateau_size.lower = {2}
    /\ difference.lower = {1}
    /\ \E k \in 1..Len(ret.peaks) :
          /\ ret.peaks[k].position.end - ret.peaks[k].position.start = 2
          /\ ret.peaks[k].left_diff >= 1
          /\ ret.peaks[k].right_diff >= 1

\* no sample on the left of p, or on its right, is greater than the peak
NoGreaterLeft(p) == \A j \in 0..(p.position.start - 1) : Y(j) <= Y(p.position.start)

NoGreaterRight(p) == \A j \in p.position.end..(N - 1) : Y(j) <= Y(p.position.start)

\* C11 as stated: the valley of a side whose scan reaches the data boundary
\* is absent, so a returned peak with no greater sample on either side has
\* prominence zero, and one with a greater sample on one side only has its
\* height minus the valley floor of that side only.
C11_ValleyAbsentAtBoundary ==
    (ret.kind = "peaks" /\ ~ is_empty(prominence)) =>
        \A k \in 1..Len(ret.peaks) :
            LET p == ret.peaks[k]
                h == Y(p.position.start)
            IN  /\ (NoGreaterLeft(p) /\ NoGreaterRight(p)) => p.prominence = {0}
                /\ (~ NoGreaterLeft(p) /\ NoGreaterRight(p)) =>
                      p.prominence = {h - MinOver(LeftScan(p))}
                /\ (NoGreaterLeft(p) /\ ~ NoGreaterRight(p)) =>
                      p.prominence = {h - MinOver(RightScan(p))}

\* C11 as amended: the valley of a side is the least sample the scan met,
\* also when the scan reached the data boundary, and it is present on both
\* sides of every returned peak; a returned peak with no greater sample on
\* either side has its height minus the larger of the least samples of its
\* two sides, and one with a greater sample on one side only has its height
\* minus the larger of its two valley floors.
C11_ValleyPresentAtBoundary ==
    (ret.kind = "peaks" /\ ~ is_empty(prominence)) =>
        \A k \in 1..Len(ret.peaks) :
            LET p == ret.peaks[k]
                s == p.position.start
                e == p.position.end
                h == Y(s)
            IN  /\ is_some(valley_y(skip(rev(y_data), N - s), h))
                /\ is_some(valley_y(skip(y_data, e), h))
                /\ (NoGreaterLeft(p) /\ NoGreaterRight(p)) =>
                      p.prominence = {h - Larger(MinOver(0..(s - 1)), MinOver(e..(N - 1)))}
                /\ (NoGreaterLeft(p) # NoGreaterRight(p)) =>
                      p.prominence = {h - Larger(MinOver(LeftScan(p)), MinOver(RightScan(p)))}

C11_Witness ==
    /\ ret.kind = "peaks"
    /\ ~ is_empty(prominence)
    /\ \E k \in 1..Len(ret.peaks) :
          /\ NoGreaterLeft(ret.peaks[k]) /\ NoGreaterRight(ret.peaks[k])
          /\ ret.peaks[k].prominence = {2}
    /\ \E k \in 1..Len(ret.peaks) :
          /\ NoGreaterLeft(ret.peaks[k]) /\ ~ NoGreaterRight(ret.peaks[k])
          /\ ret.peaks[k].prominence = {1}

\* C12: find_peaks on a slice of two or more samples returns a list under
\* every configuration, and the empty list when a distance bound is
\* configured and no candidate reaches the distance stage.
C12_ReturnsAList ==
    (call.op = "find_peaks" /\ N >= 2) =>
        /\ ret.kind = "peaks"
        /\ (~ is_empty(distance) /\ Candidates = << >>) => ret.peaks = << >>

====
